---- MODULE Spec2Model ----
(***************************************************************************)
(* Job orchestration of diffbox: the submission handlers, the Redis-stream *)
(* queue and its consumer loop, the worker manager and the job ledger.     *)
(*                                                                         *)
(* Consume takes its handler as an argument; here the handler is           *)
(* Manager.SubmitJob, the dispatch the design documents describe, and the  *)
(* group is read by NumConsumers loops.  The state after Init is the one   *)
(* main has built: workers started, callbacks installed, stream empty.     *)
(* The inference worker is a separate program that speaks the line         *)
(* protocol: it reads one job message at a time from its input and ends    *)
(* each job with a complete or an error line, and it may exit at any time. *)
(* hist, brokerErr, published, orphanedAt and requeued record what has     *)
(* happened; no action reads them.                                         *)
(*                                                                         *)
(* PoolSpec runs dispatch against pools of 0..MaxPool slots together with  *)
(* Manager.Stop; HubSpec runs the WebSocket hub's Run loop with its        *)
(* clients; LedgerSpec runs the job methods of the database as any caller  *)
(* may call them.  Each leaves the state of the other parts as Init made   *)
(* it.  ListSpec lists and clears tables of rows created at different      *)
(* times; EventSpec follows the events of dispatched jobs from the         *)
(* workers' output through the hub to a client's connection; RestartSpec   *)
(* is Spec started on the database file an earlier run has left.           *)
(* SoloSpec is Spec with one consumer loop reading the group.  LinkSpec    *)
(* runs one client's connection with its two pumps against the hub, and    *)
(* ConnSpec adds the control frames the client sends.  StartSpec is the    *)
(* start of main between Manager.Start and SetCallbacks, while the workers *)
(* load their models; ProtocolSpec is Spec with workers that also write    *)
(* lines the manager cannot decode.                                        *)
(***************************************************************************)
EXTENDS Integers, Sequences, FiniteSets, TLC

(* ------------------------------ bounds -------------------------------- *)

NumJobs == 2

WorkerCount == 1

NumConsumers == 2

MaxStream == 3

MaxPool == 2

NumClients == 2

ChanCap == 2

MaxProgress == 2

Jobs == 1..NumJobs

Workers == 0..(WorkerCount - 1)

Consumers == 1..NumConsumers

Clients == 1..NumClients

NoJob == 0

NoWorker == -1

NoMsg == 0

Unlocked == 0

(* ------------------------------- state -------------------------------- *)

VARIABLES
    subPc,          \* per job id: position of its submission request
    ledger,         \* jobs table: job id -> row (status "absent": no row)
    stream,         \* the Redis stream "jobs": sequence of entries
    hist,           \* per stream entry: handler invocations and failures
    lastDelivered,  \* consumer group's last-delivered entry (XREADGROUP ">")
    pending,        \* consumer group's pending entries list (unacknowledged)
    cpc,            \* per consumer: position in Consume / SubmitJob
    cmsg,           \* per consumer: entry being handled
    csel,           \* per consumer: worker chosen by SubmitJob's scan
    brokerErr,      \* per consumer: XReadGroup has returned an error
    mu,             \* Manager.mu: Unlocked or the holder
    nextWorker,     \* Manager.nextWorker
    running,        \* Worker.running per slot
    procAlive,      \* per slot: the worker process has not exited
    stdin,          \* per slot: job messages written and not yet read
    cur,            \* per slot: job the worker process is working on
    stdout,         \* per slot: protocol lines emitted and not yet scanned
    published,      \* per event: times it was handed to the hub's broadcast channel
    orphanedAt,     \* per slot: jobs in flight when the process exited
    requeued,       \* per job id: requeue signals emitted
    stopPc,         \* Manager.Stop: position of the call
    stopIdx,        \* Manager.Stop: slot the range loop is at
    shutdownSent,   \* per slot: a shutdown message was written to its stdin
    hubClients,     \* WebSocketHub.clients
    sendBuf,        \* per client: Client.send, messages buffered and not yet written
    closes,         \* per client: close(client.send) calls so far
    broadcast,      \* WebSocketHub.broadcast, messages not yet taken by Run
    lastLevel,      \* per slot: last progress level the worker process reported
    createdAt,      \* per job id: created_at of its row, as a listing reads it
    listed,         \* what the last ListJobs call returned
    subscribedTo,   \* per client: Client.subscribedTo, the job ids subscribed
    conn,           \* per client: its connection ("none", "open", "closed")
    reader,         \* per client: readPump has started and not returned
    writer,         \* per client: writePump has started and not returned
    installed       \* Manager.onProgress / onComplete / onError are set

vars == <<subPc, ledger, stream, hist, lastDelivered, pending, cpc, cmsg, csel,
          brokerErr, mu, nextWorker, running, procAlive, stdin, cur, stdout,
          published, orphanedAt, requeued, stopPc, stopIdx, shutdownSent,
          hubClients, sendBuf, closes, broadcast, lastLevel, createdAt, listed,
          subscribedTo, conn, reader, writer, installed>>

queueVars == <<stream, hist, lastDelivered, pending>>

consumerVars == <<cpc, cmsg, csel, brokerErr>>

managerVars == <<mu, nextWorker, running>>

processVars == <<procAlive, stdin, cur, stdout, orphanedAt, lastLevel>>

submitVars == <<subPc, ledger>>

stopVars == <<stopPc, stopIdx, shutdownSent>>

hubVars == <<hubClients, sendBuf, closes, broadcast>>

listVars == <<createdAt, listed>>

connVars == <<subscribedTo, conn, reader, writer>>

(* ------------------------------ ledger -------------------------------- *)

AbsentRow == [status |-> "absent", progress |-> 0, stage |-> "", output |-> "", error |-> ""]

\* INSERT INTO jobs (id, type, status, params, ...): the row as handlers create it
CreateJob(l, j) == [l EXCEPT ![j] = [AbsentRow EXCEPT !.status = "pending"]]

Terminal(j) == ledger[j].status \in {"completed", "failed"}

(* ------------------------------- queue -------------------------------- *)

JobEntry(j, r) == [kind |-> "job", id |-> j, retry |-> r]

\* XADD of {"data": json(data)} at the end of the stream
Enqueue(s, e) == Append(s, e)

\* Values["data"] is a string and unmarshals into a map
Decodes(e) == e.kind = "job"

Fresh == [calls |-> 0, fails |-> 0]

\* the events main's callbacks broadcast, by type and job id; a worker that
\* loads its pipeline reports progress with no job id
JobEvents == {"job:progress", "job:complete", "job:error"} \X (Jobs \cup {NoJob})

(* ----------------------------- submission ----------------------------- *)

\* the handler going on to the queue although CreateJob returned an error
SubmitCreateJobIgnoresError(j) ==
    /\ subPc[j] = "new"
    /\ \/ /\ ledger[j].status = "absent"
          /\ ledger' = CreateJob(ledger, j)
          /\ subPc' = [subPc EXCEPT ![j] = "created"]
       \/ /\ subPc' = [subPc EXCEPT ![j] = "created"]
          /\ UNCHANGED ledger
    /\ UNCHANGED <<queueVars, consumerVars, managerVars, processVars, published, requeued,
                   stopVars, hubVars, listVars, connVars, installed>>

\* handleI2VSubmit up to s.db.CreateJob
SubmitCreateJob(j) ==
    /\ subPc[j] = "new"
    /\ \/ /\ ledger[j].status = "absent"
          /\ ledger' = CreateJob(ledger, j)
          /\ subPc' = [subPc EXCEPT ![j] = "created"]
       \/ /\ subPc' = [subPc EXCEPT ![j] = "error"]
          /\ UNCHANGED ledger
    /\ UNCHANGED <<queueVars, consumerVars, managerVars, processVars, published, requeued,
                   stopVars, hubVars, listVars, connVars, installed>>

\* the handler answering success without the entry being added to the stream
SubmitEnqueueDropsEntry(j) ==
    /\ subPc[j] = "created"
    /\ \/ /\ Len(stream) < MaxStream
          /\ subPc' = [subPc EXCEPT ![j] = "success"]
          /\ UNCHANGED <<stream, hist>>
       \/ /\ subPc' = [subPc EXCEPT ![j] = "error"]
          /\ UNCHANGED <<stream, hist>>
    /\ UNCHANGED <<ledger, lastDelivered, pending, consumerVars, managerVars, processVars,
                   published, requeued, stopVars, hubVars, listVars, connVars, installed>>

\* the handler marking the job failed when Enqueue returned an error
SubmitEnqueueFailsJob(j) ==
    /\ subPc[j] = "created"
    /\ \/ /\ Len(stream) < MaxStream
          /\ stream' = Enqueue(stream, JobEntry(j, 0))
          /\ hist' = Append(hist, Fresh)
          /\ subPc' = [subPc EXCEPT ![j] = "success"]
          /\ UNCHANGED ledger
       \/ /\ subPc' = [subPc EXCEPT ![j] = "error"]
          /\ ledger' = [ledger EXCEPT ![j].status = "failed"]
          /\ UNCHANGED <<stream, hist>>
    /\ UNCHANGED <<lastDelivered, pending, consumerVars, managerVars, processVars,
                   published, requeued, stopVars, hubVars, listVars, connVars, installed>>

\* handleI2VSubmit from s.queue.Enqueue to the response
SubmitEnqueue(j) ==
    /\ subPc[j] = "created"
    /\ \/ /\ Len(stream) < MaxStream
          /\ stream' = Enqueue(stream, JobEntry(j, 0))
          /\ hist' = Append(hist, Fresh)
          /\ subPc' = [subPc EXCEPT ![j] = "success"]
       \/ /\ subPc' = [subPc EXCEPT ![j] = "error"]
          /\ UNCHANGED <<stream, hist>>
    /\ UNCHANGED <<ledger, lastDelivered, pending, consumerVars, managerVars, processVars,
                   published, requeued, stopVars, hubVars, listVars, connVars, installed>>

(* ------------------------------ consumer ------------------------------ *)

\* Consume after handler returned: ok -> XAck; error -> log and continue
AfterHandler(c, ok) ==
    /\ pending' = IF ok THEN pending \ {cmsg[c]} ELSE pending
    /\ hist' = IF ok THEN hist
               ELSE [hist EXCEPT ![cmsg[c]].fails = @ + 1]
    /\ stream' = stream
    /\ cpc' = [cpc EXCEPT ![c] = "read"]
    /\ cmsg' = [cmsg EXCEPT ![c] = NoMsg]
    /\ csel' = [csel EXCEPT ![c] = NoWorker]

\* XReadGroup delivering the newest entry of the stream, the ones before it
\* counted as delivered
XReadGroupNewest(c) ==
    /\ cpc[c] = "read"
    /\ lastDelivered < Len(stream)
    /\ LET m == Len(stream) IN
        /\ lastDelivered' = m
        /\ pending' = pending \cup {m}
        /\ IF Decodes(stream[m])
           THEN /\ cpc' = [cpc EXCEPT ![c] = "lock"]
                /\ cmsg' = [cmsg EXCEPT ![c] = m]
                /\ hist' = [hist EXCEPT ![m].calls = @ + 1]
           ELSE /\ UNCHANGED <<cpc, cmsg, hist>>
    /\ UNCHANGED <<stream, csel, brokerErr, submitVars, managerVars, processVars,
                   published, requeued, stopVars, hubVars, listVars, connVars, installed>>

\* Consume: XReadGroup delivers one new entry; decode; on success call handler
XReadGroup(c) ==
    /\ cpc[c] = "read"
    /\ lastDelivered < Len(stream)
    /\ LET m == lastDelivered + 1 IN
        /\ lastDelivered' = m
        /\ pending' = pending \cup {m}
        /\ IF Decodes(stream[m])
           THEN /\ cpc' = [cpc EXCEPT ![c] = "lock"]
                /\ cmsg' = [cmsg EXCEPT ![c] = m]
                /\ hist' = [hist EXCEPT ![m].calls = @ + 1]
           ELSE /\ UNCHANGED <<cpc, cmsg, hist>>
    /\ UNCHANGED <<stream, csel, brokerErr, submitVars, managerVars, processVars,
                   published, requeued, stopVars, hubVars, listVars, connVars, installed>>

\* XReadGroup's error logged and the loop kept going
XReadGroupErrorIgnored(c) ==
    /\ cpc[c] = "read"
    /\ brokerErr' = [brokerErr EXCEPT ![c] = TRUE]
    /\ UNCHANGED <<cpc, cmsg, csel, queueVars, submitVars, managerVars, processVars,
                   published, requeued, stopVars, hubVars, listVars, connVars, installed>>

\* Consume: XReadGroup returned an error -> return err
XReadGroupError(c) ==
    /\ cpc[c] = "read"
    /\ cpc' = [cpc EXCEPT ![c] = "returned"]
    /\ brokerErr' = [brokerErr EXCEPT ![c] = TRUE]
    /\ UNCHANGED <<cmsg, csel, queueVars, submitVars, managerVars, processVars,
                   published, requeued, stopVars, hubVars, listVars, connVars, installed>>

(* --------------------------- worker manager --------------------------- *)

\* SubmitJob entered without waiting for the mutex
LockNoWait(c) ==
    /\ cpc[c] = "lock"
    /\ mu' = c
    /\ cpc' = [cpc EXCEPT ![c] = "scan"]
    /\ UNCHANGED <<cmsg, csel, brokerErr, nextWorker, running, queueVars, submitVars,
                   processVars, published, requeued, stopVars, hubVars, listVars, connVars, installed>>

\* m.mu.Lock() at the top of SubmitJob
Lock(c) ==
    /\ cpc[c] = "lock"
    /\ mu = Unlocked
    /\ mu' = c
    /\ cpc' = [cpc EXCEPT ![c] = "scan"]
    /\ UNCHANGED <<cmsg, csel, brokerErr, nextWorker, running, queueVars, submitVars,
                   processVars, published, requeued, stopVars, hubVars, listVars, connVars, installed>>

\* m.workers: the slots of the pool
Pool == DOMAIN running

\* len(m.workers)
PoolSize == Cardinality(Pool)

\* offsets i of the scan whose slot is running
RunningOffsets == {i \in 0..(PoolSize - 1) : running[(nextWorker + i) % PoolSize]}

MinOf(S) == CHOOSE x \in S : \A y \in S : x <= y

\* the scan started at slot 0 whatever the cursor is
SelectedFromZero ==
    IF RunningOffsets = {} THEN NoWorker
    ELSE MinOf({w \in Pool : running[w]})

\* the round-robin scan: first running slot from the cursor, or NoWorker
Selected ==
    IF RunningOffsets = {} THEN NoWorker
    ELSE (nextWorker + MinOf(RunningOffsets)) % PoolSize

\* SubmitJob falling back to m.workers[0] when the scan finds no running worker
ScanFallsBackToFirst(c) ==
    /\ cpc[c] = "scan"
    /\ IF Pool = {}
       THEN /\ mu' = Unlocked
            /\ AfterHandler(c, FALSE)
            /\ UNCHANGED <<nextWorker, lastDelivered>>
       ELSE /\ csel' = [csel EXCEPT ![c] = IF Selected = NoWorker THEN 0 ELSE Selected]
            /\ nextWorker' = (csel'[c] + 1) % PoolSize
            /\ cpc' = [cpc EXCEPT ![c] = "send"]
            /\ UNCHANGED <<mu, cmsg, queueVars>>
    /\ UNCHANGED <<brokerErr, running, submitVars, processVars, published, requeued,
                   stopVars, hubVars, listVars, connVars, installed>>

\* SubmitJob: scan; no running worker -> unlock, return error to Consume
Scan(c) ==
    /\ cpc[c] = "scan"
    /\ IF Selected = NoWorker
       THEN /\ mu' = Unlocked
            /\ AfterHandler(c, FALSE)
            /\ UNCHANGED <<nextWorker, lastDelivered>>
       ELSE /\ csel' = [csel EXCEPT ![c] = Selected]
            /\ nextWorker' = (Selected + 1) % PoolSize
            /\ cpc' = [cpc EXCEPT ![c] = "send"]
            /\ UNCHANGED <<mu, cmsg, queueVars>>
    /\ UNCHANGED <<brokerErr, running, submitVars, processVars, published, requeued, stopVars, hubVars, listVars, connVars, installed>>

\* SubmitJob: encode the job message to worker.stdin, unlock, return to Consume
Send(c) ==
    /\ cpc[c] = "send"
    /\ LET w == csel[c]
           j == stream[cmsg[c]].id IN
        IF procAlive[w]
        THEN /\ stdin' = [stdin EXCEPT ![w] = Append(@, j)]
             /\ AfterHandler(c, TRUE)
        ELSE /\ UNCHANGED stdin
             /\ AfterHandler(c, FALSE)
    /\ mu' = Unlocked
    /\ UNCHANGED <<lastLevel, lastDelivered, brokerErr, nextWorker, running, submitVars,
                   procAlive, cur, stdout, orphanedAt, published, requeued, stopVars, hubVars, listVars, connVars, installed>>

\* the job id the manager holds for slot w: Worker has the fields id, cmd,
\* stdin, stdout, stderr and running, and none for the job it was given
CurrentJobID(w) == NoJob

\* the goroutine around cmd.Wait() in spawnWorker
ExitWatcher(w) ==
    /\ ~procAlive[w]
    /\ running[w]
    /\ running' = [running EXCEPT ![w] = FALSE]
    /\ UNCHANGED <<mu, nextWorker, queueVars, consumerVars, submitVars, processVars,
                   published, requeued, stopVars, hubVars, listVars, connVars, installed>>

\* the event type a callback of main broadcasts for a protocol line type
EventOf(t) ==
    CASE t = "progress" -> "job:progress"
      [] t = "complete" -> "job:complete"
      [] t = "error"    -> "job:error"

\* handleWorkerOutput: one scanned line, dispatched to the callbacks of main
HandleWorkerOutput(w) ==
    /\ stdout[w] # <<>>
    /\ LET line == Head(stdout[w]) IN
        /\ stdout' = [stdout EXCEPT ![w] = Tail(@)]
        /\ published' = [published EXCEPT
              ![<<EventOf(line.type), line.job>>] = @ + 1]
    /\ UNCHANGED <<lastLevel, ledger, subPc, queueVars, consumerVars, managerVars,
                   procAlive, stdin, cur, orphanedAt, requeued, stopVars, hubVars, listVars, connVars, installed>>

(* --------------------------- worker process --------------------------- *)

\* jobs written to slot w whose terminal line has not been handled yet
InFlight(w) ==
    {stdin[w][i] : i \in 1..Len(stdin[w])}
      \cup (IF cur[w] = NoJob THEN {} ELSE {cur[w]})
      \cup {stdout[w][i].job : i \in 1..Len(stdout[w])}

\* the worker reads the next job message from its input
WorkerTakeJob(w) ==
    /\ procAlive[w]
    /\ cur[w] = NoJob
    /\ stdin[w] # <<>>
    /\ cur' = [cur EXCEPT ![w] = Head(stdin[w])]
    /\ stdin' = [stdin EXCEPT ![w] = Tail(@)]
    /\ lastLevel' = [lastLevel EXCEPT ![w] = 0]
    /\ UNCHANGED <<procAlive, stdout, orphanedAt, queueVars, consumerVars, managerVars,
                   submitVars, published, requeued, stopVars, hubVars, listVars, connVars, installed>>

\* the worker finishes its job with a complete or an error line
WorkerEmit(w, t) ==
    /\ procAlive[w]
    /\ cur[w] # NoJob
    /\ stdout' = [stdout EXCEPT ![w] = Append(@, [type |-> t, job |-> cur[w], level |-> 0])]
    /\ cur' = [cur EXCEPT ![w] = NoJob]
    /\ UNCHANGED <<lastLevel, procAlive, stdin, orphanedAt, queueVars, consumerVars, managerVars,
                   submitVars, published, requeued, stopVars, hubVars, listVars, connVars, installed>>

\* the worker process exits unexpectedly
WorkerExit(w) ==
    /\ procAlive[w]
    /\ procAlive' = [procAlive EXCEPT ![w] = FALSE]
    /\ orphanedAt' = [orphanedAt EXCEPT ![w] =
          {stdin[w][i] : i \in 1..Len(stdin[w])}
            \cup (IF cur[w] = NoJob THEN {} ELSE {cur[w]})]
    /\ stdin' = [stdin EXCEPT ![w] = <<>>]
    /\ cur' = [cur EXCEPT ![w] = NoJob]
    /\ UNCHANGED <<lastLevel, stdout, queueVars, consumerVars, managerVars, submitVars,
                   published, requeued, stopVars, hubVars, listVars, connVars, installed>>


(* ------------------------- other stream clients ----------------------- *)

HasEntry(e) == \E k \in 1..Len(stream) : stream[k] = e

\* entries Consume has to cope with that no submission handler appends: an entry
\* without a "data" string, one whose data is no JSON object, and the retry of a
\* submitted job (retry_count 1), at most one per job
ExternalEntries ==
    {[kind |-> "nodata", id |-> NoJob, retry |-> 0],
     [kind |-> "badjson", id |-> NoJob, retry |-> 0]}
      \cup {JobEntry(j, 1) : j \in {i \in Jobs : subPc[i] = "success" /\ ~HasEntry(JobEntry(i, 1))}}

XAddExternal(e) ==
    /\ Len(stream) < MaxStream
    /\ e \in ExternalEntries
    /\ stream' = Enqueue(stream, e)
    /\ hist' = Append(hist, Fresh)
    /\ UNCHANGED <<lastDelivered, pending, consumerVars, managerVars, processVars,
                   submitVars, published, requeued, stopVars, hubVars, listVars, connVars, installed>>

(* --------------------------- specification ---------------------------- *)

\* nothing submitted, no queue entry, every consumer loop about to read
InitQueue ==
    /\ subPc = [j \in Jobs |-> "new"]
    /\ stream = <<>>
    /\ hist = <<>>
    /\ lastDelivered = 0
    /\ pending = {}
    /\ cpc = [c \in Consumers |-> "read"]
    /\ cmsg = [c \in Consumers |-> NoMsg]
    /\ csel = [c \in Consumers |-> NoWorker]
    /\ brokerErr = [c \in Consumers |-> FALSE]
    /\ published = [e \in JobEvents |-> 0]
    /\ requeued = [j \in Jobs |-> 0]

\* the manager after Start with n workers spawned and no call of Stop
Started(n) ==
    /\ mu = Unlocked
    /\ nextWorker = 0
    /\ running = [w \in 0..(n - 1) |-> TRUE]
    /\ procAlive = [w \in 0..(n - 1) |-> TRUE]
    /\ stdin = [w \in 0..(n - 1) |-> <<>>]
    /\ cur = [w \in 0..(n - 1) |-> NoJob]
    /\ stdout = [w \in 0..(n - 1) |-> <<>>]
    /\ orphanedAt = [w \in 0..(n - 1) |-> {}]
    /\ lastLevel = [w \in 0..(n - 1) |-> 0]
    /\ stopPc = "idle"
    /\ stopIdx = 0
    /\ shutdownSent = [w \in 0..(n - 1) |-> FALSE]

\* the manager as main has set it up: workers spawned, callbacks installed
InitPool(n) == Started(n) /\ installed = TRUE

\* NewWebSocketHub: no client, nothing to broadcast
InitHub ==
    /\ hubClients = {}
    /\ sendBuf = [k \in Clients |-> <<>>]
    /\ closes = [k \in Clients |-> 0]
    /\ broadcast = <<>>

\* no connection has been upgraded
InitConn ==
    /\ subscribedTo = [k \in Clients |-> {}]
    /\ conn = [k \in Clients |-> "none"]
    /\ reader = [k \in Clients |-> FALSE]
    /\ writer = [k \in Clients |-> FALSE]

\* a jobs table without rows, never listed
InitLedger ==
    /\ ledger = [j \in Jobs |-> AbsentRow]
    /\ createdAt = [j \in Jobs |-> 0]
    /\ listed = <<>>

Init == InitQueue /\ InitPool(WorkerCount) /\ InitHub /\ InitConn /\ InitLedger

Next ==
    \/ \E j \in Jobs : SubmitCreateJob(j)
    \/ \E j \in Jobs : SubmitEnqueue(j)
    \/ \E c \in Consumers : XReadGroup(c)
    \/ \E c \in Consumers : XReadGroupError(c)
    \/ \E c \in Consumers : Lock(c)
    \/ \E c \in Consumers : Scan(c)
    \/ \E c \in Consumers : Send(c)
    \/ \E w \in Pool : ExitWatcher(w)
    \/ \E w \in Pool : HandleWorkerOutput(w)
    \/ \E w \in Pool : WorkerTakeJob(w)
    \/ \E w \in Pool : \E t \in {"complete", "error"} : WorkerEmit(w, t)
    \/ \E w \in Pool : WorkerExit(w)

Spec == Init /\ [][Next]_vars

\* the steps the running goroutines and worker processes take when they can;
\* request failures, broker errors and process exits are not scheduled
Fairness ==
    /\ \A c \in Consumers : WF_vars(XReadGroup(c)) /\ WF_vars(Lock(c))
                            /\ WF_vars(Scan(c)) /\ WF_vars(Send(c))
    /\ \A w \in Workers : WF_vars(ExitWatcher(w)) /\ WF_vars(HandleWorkerOutput(w))
                          /\ WF_vars(WorkerTakeJob(w))
                          /\ WF_vars(\E t \in {"complete", "error"} : WorkerEmit(w, t))

FairSpec == Spec /\ Fairness

NextX ==
    \/ Next
    \/ \E e \in ExternalEntries : XAddExternal(e)

SpecX == Init /\ [][NextX]_vars

(* ------------------------- the pool and its Stop ---------------------- *)

Slots == 0..(MaxPool - 1)

StopHolder == -1

\* Manager.Stop: m.mu.Lock()
StopLock ==
    /\ stopPc = "idle"
    /\ mu = Unlocked
    /\ mu' = StopHolder
    /\ stopPc' = "loop"
    /\ stopIdx' = 0
    /\ UNCHANGED <<shutdownSent, nextWorker, running, queueVars, consumerVars, submitVars,
                   processVars, published, requeued, hubVars, listVars, connVars, installed>>

\* Manager.Stop: the range loop at a slot.  A running worker is sent the
\* shutdown message (the Encode error is dropped); after the last slot the
\* deferred Unlock runs and Stop returns
StopLoop ==
    /\ stopPc = "loop"
    /\ IF stopIdx = PoolSize
       THEN /\ mu' = Unlocked
            /\ stopPc' = "done"
            /\ UNCHANGED <<stopIdx, shutdownSent>>
       ELSE /\ IF running[stopIdx]
               THEN /\ shutdownSent' = [shutdownSent EXCEPT ![stopIdx] = procAlive[stopIdx]]
                    /\ stopPc' = "wait"
                    /\ UNCHANGED stopIdx
               ELSE /\ stopIdx' = stopIdx + 1
                    /\ UNCHANGED <<stopPc, shutdownSent>>
            /\ UNCHANGED mu
    /\ UNCHANGED <<nextWorker, running, queueVars, consumerVars, submitVars,
                   processVars, published, requeued, hubVars, listVars, connVars, installed>>

\* Manager.Stop: worker.cmd.Wait() returns once the process has exited, then
\* worker.running = false
StopWait ==
    /\ stopPc = "wait"
    /\ ~procAlive[stopIdx]
    /\ running' = [running EXCEPT ![stopIdx] = FALSE]
    /\ stopIdx' = stopIdx + 1
    /\ stopPc' = "loop"
    /\ UNCHANGED <<shutdownSent, mu, nextWorker, queueVars, consumerVars, submitVars,
                   processVars, published, requeued, hubVars, listVars, connVars, installed>>

\* the worker reads the shutdown message and exits
WorkerShutdown(w) ==
    /\ procAlive[w]
    /\ shutdownSent[w]
    /\ shutdownSent' = [shutdownSent EXCEPT ![w] = FALSE]
    /\ procAlive' = [procAlive EXCEPT ![w] = FALSE]
    /\ orphanedAt' = [orphanedAt EXCEPT ![w] =
          {stdin[w][i] : i \in 1..Len(stdin[w])}
            \cup (IF cur[w] = NoJob THEN {} ELSE {cur[w]})]
    /\ stdin' = [stdin EXCEPT ![w] = <<>>]
    /\ cur' = [cur EXCEPT ![w] = NoJob]
    /\ UNCHANGED <<lastLevel, stopPc, stopIdx, stdout, queueVars, consumerVars, managerVars,
                   submitVars, published, requeued, hubVars, listVars, connVars, installed>>

\* the pool as NewManager leaves it (no slot) or as Start leaves it for a
\* configured worker count of 1..MaxPool
PoolInit == \E n \in 0..MaxPool : InitQueue /\ InitPool(n) /\ InitHub /\ InitConn /\ InitLedger

PoolNext ==
    \/ \E j \in Jobs : SubmitCreateJob(j)
    \/ \E j \in Jobs : SubmitEnqueue(j)
    \/ \E c \in Consumers : XReadGroup(c)
    \/ \E c \in Consumers : Lock(c)
    \/ \E c \in Consumers : Scan(c)
    \/ \E c \in Consumers : Send(c)
    \/ \E w \in Pool : ExitWatcher(w)
    \/ \E w \in Pool : WorkerExit(w)
    \/ \E w \in Pool : WorkerShutdown(w)
    \/ StopLock
    \/ StopLoop
    \/ StopWait

PoolSpec == PoolInit /\ [][PoolNext]_vars

\* the goroutines take their steps; a worker need not obey the shutdown
\* message, and nothing schedules a call of Stop
PoolFairness ==
    /\ \A c \in Consumers : WF_vars(XReadGroup(c)) /\ WF_vars(Lock(c))
                            /\ WF_vars(Scan(c)) /\ WF_vars(Send(c))
    /\ \A w \in Slots : WF_vars(w \in Pool /\ ExitWatcher(w))
    /\ WF_vars(StopLoop)
    /\ WF_vars(StopWait)

FairPoolSpec == PoolSpec /\ PoolFairness

(* --------------------------- the event hub ---------------------------- *)

jobVars == <<queueVars, consumerVars, managerVars, processVars, submitVars,
             published, requeued, stopVars, listVars, connVars, installed>>

\* the messages the Broadcast* methods marshal, by type
HubMsgs == {"job:complete", "job:error"}

\* the client set and the clients' send channels
Hub == [clients |-> hubClients, sendBuf |-> sendBuf, closes |-> closes]

\* Run, case client := <-h.register
Register(h, k) == [h EXCEPT !.clients = @ \cup {k}]

\* Run's unregister case without the presence test
UnregisterUnguarded(h, k) ==
    [h EXCEPT !.clients = @ \ {k}, !.closes[k] = @ + 1]

\* Run, case client := <-h.unregister
Unregister(h, k) ==
    IF k \in h.clients
    THEN [h EXCEPT !.clients = @ \ {k}, !.closes[k] = @ + 1]
    ELSE h

\* clients whose send channel takes one more message without blocking
Ready(h) == {k \in h.clients : Len(h.sendBuf[k]) < ChanCap}

\* Run's broadcast case skipping a client whose channel is full
BroadcastSkipsFull(h, msg) ==
    [h EXCEPT !.sendBuf = [k \in Clients |->
                  IF k \in Ready(h) THEN Append(h.sendBuf[k], msg) ELSE h.sendBuf[k]]]

\* Run's broadcast case offering a message to the clients subscribed to its job
BroadcastToSubscribers(h, msg) ==
    LET to == {k \in h.clients : msg.job \in subscribedTo[k]} IN
    [clients |-> h.clients \ (to \ Ready(h)),
     sendBuf |-> [k \in Clients |->
                  IF k \in to \cap Ready(h) THEN Append(h.sendBuf[k], msg) ELSE h.sendBuf[k]],
     closes  |-> [k \in Clients |->
                  IF k \in to \ Ready(h) THEN h.closes[k] + 1 ELSE h.closes[k]]]

\* Run's broadcast case closing a full client's channel without deleting the
\* client from the set
BroadcastKeepsClosed(h, msg) ==
    [clients |-> h.clients,
     sendBuf |-> [k \in Clients |->
                  IF k \in Ready(h) THEN Append(h.sendBuf[k], msg) ELSE h.sendBuf[k]],
     closes  |-> [k \in Clients |->
                  IF k \in h.clients \ Ready(h) THEN h.closes[k] + 1 ELSE h.closes[k]]]

\* Run, case message := <-h.broadcast: select { case client.send <- message:
\* default: close(client.send); delete(h.clients, client) } for each client
Broadcast(h, msg) ==
    [clients |-> Ready(h),
     sendBuf |-> [k \in Clients |->
                  IF k \in Ready(h) THEN Append(h.sendBuf[k], msg) ELSE h.sendBuf[k]],
     closes  |-> [k \in Clients |->
                  IF k \in h.clients \ Ready(h) THEN h.closes[k] + 1 ELSE h.closes[k]]]

\* the hub's fields after a step of Run
HubBecomes(h) ==
    /\ hubClients' = h.clients
    /\ sendBuf' = h.sendBuf
    /\ closes' = h.closes

\* handleWebSocket: s.hub.register <- client, taken by Run; a Client whose
\* channel was closed is never registered again
HubRegister(k) ==
    /\ closes[k] = 0
    /\ HubBecomes(Register(Hub, k))
    /\ UNCHANGED <<broadcast, jobVars>>

\* readPump's deferred c.hub.unregister <- c, taken by Run
HubUnregister(k) ==
    /\ HubBecomes(Unregister(Hub, k))
    /\ UNCHANGED <<broadcast, jobVars>>

\* BroadcastJobComplete / BroadcastJobError: h.broadcast <- msgBytes
HubPublish(msg) ==
    /\ Len(broadcast) < ChanCap
    /\ broadcast' = Append(broadcast, msg)
    /\ UNCHANGED <<hubClients, sendBuf, closes, jobVars>>

\* Run takes one message from h.broadcast and offers it to every client
HubBroadcast ==
    /\ broadcast # <<>>
    /\ HubBecomes(Broadcast(Hub, Head(broadcast)))
    /\ broadcast' = Tail(broadcast)
    /\ UNCHANGED jobVars

\* writePump: one message of c.send written to the connection
WritePump(k) ==
    /\ sendBuf[k] # <<>>
    /\ sendBuf' = [sendBuf EXCEPT ![k] = Tail(@)]
    /\ UNCHANGED <<hubClients, closes, broadcast, jobVars>>

HubNext ==
    \/ \E k \in Clients : HubRegister(k)
    \/ \E k \in Clients : HubUnregister(k)
    \/ \E msg \in HubMsgs : HubPublish(msg)
    \/ HubBroadcast
    \/ \E k \in Clients : WritePump(k)

HubSpec == Init /\ [][HubNext]_vars

(* ------------------------- the ledger's methods ----------------------- *)

\* progress values a caller reports, in steps of 1/MaxProgress
ProgressLevels == 0..MaxProgress

StageNames == {"sampling"}

StatusNames == {"pending", "running", "completed", "failed"}

OutputPaths == {"out.mp4"}

ErrorTexts == {"oom"}

\* the progress update that also marks the row running
UpdateJobProgressSetsRunning(l, j, p, st) ==
    IF l[j].status = "absent" THEN l
    ELSE [l EXCEPT ![j].progress = p, ![j].stage = st, ![j].status = "running"]

\* UPDATE jobs SET progress = ?, stage = ?, updated_at = ? WHERE id = ?
UpdateJobProgress(l, j, p, st) ==
    IF l[j].status = "absent" THEN l
    ELSE [l EXCEPT ![j].progress = p, ![j].stage = st]

\* UPDATE jobs SET status = ?, updated_at = ? WHERE id = ?
UpdateJobStatus(l, j, s) ==
    IF l[j].status = "absent" THEN l
    ELSE [l EXCEPT ![j].status = s]

\* UPDATE jobs SET status = 'completed', output = ?, updated_at = ? WHERE id = ?
CompleteJob(l, j, out) ==
    IF l[j].status = "absent" THEN l
    ELSE [l EXCEPT ![j].status = "completed", ![j].output = out]

\* the failure recorded with INSERT OR REPLACE, as SetConfig writes
FailJobUpsert(l, j, err) ==
    [l EXCEPT ![j] = [AbsentRow EXCEPT !.status = "failed", !.error = err]]

\* UPDATE jobs SET status = 'failed', error = ?, updated_at = ? WHERE id = ?
FailJob(l, j, err) ==
    IF l[j].status = "absent" THEN l
    ELSE [l EXCEPT ![j].status = "failed", ![j].error = err]

\* the error the three methods return: Exec's, which is nil for an UPDATE
\* whether or not a row matched
ExecErr(l, j) == FALSE

ledgerFrame == <<subPc, queueVars, consumerVars, managerVars, processVars,
                 published, requeued, stopVars, hubVars, listVars, connVars, installed>>

\* CreateJob as a caller of the database calls it; none of the methods run
\* beside it reads created_at
DbCreateJob(j) ==
    /\ ledger[j].status = "absent"
    /\ ledger' = CreateJob(ledger, j)
    /\ UNCHANGED ledgerFrame

DbUpdateJobProgress(j, p, st) ==
    /\ ledger' = UpdateJobProgress(ledger, j, p, st)
    /\ UNCHANGED ledgerFrame

DbUpdateJobStatus(j, s) ==
    /\ ledger' = UpdateJobStatus(ledger, j, s)
    /\ UNCHANGED ledgerFrame

DbCompleteJob(j, out) ==
    /\ ledger' = CompleteJob(ledger, j, out)
    /\ UNCHANGED ledgerFrame

DbFailJob(j, err) ==
    /\ ledger' = FailJob(ledger, j, err)
    /\ UNCHANGED ledgerFrame

LedgerNext ==
    \/ \E j \in Jobs : DbCreateJob(j)
    \/ \E j \in Jobs : \E p \in ProgressLevels : \E st \in StageNames :
          DbUpdateJobProgress(j, p, st)
    \/ \E j \in Jobs : \E s \in StatusNames : DbUpdateJobStatus(j, s)
    \/ \E j \in Jobs : \E out \in OutputPaths : DbCompleteJob(j, out)
    \/ \E j \in Jobs : \E err \in ErrorTexts : DbFailJob(j, err)

LedgerSpec == Init /\ [][LedgerNext]_vars

(* ------------------------- listing and clearing ----------------------- *)

\* the ids that have a row
Present(l) == {j \in DOMAIN l : l[j].status # "absent"}

Min(a, b) == IF a <= b THEN a ELSE b

\* limits a caller passes to ListJobs
Limits == 0..(NumJobs + 1)

\* DELETE of the rows that reached a terminal status only
ClearFinishedJobs(l) ==
    [j \in DOMAIN l |-> IF l[j].status \in {"completed", "failed"} THEN AbsentRow ELSE l[j]]

\* DELETE FROM jobs
ClearJobs(l) == [j \in DOMAIN l |-> AbsentRow]

RECURSIVE OldestFirst(_, _)

\* ORDER BY created_at ASC over the rows S
OldestFirst(S, ca) ==
    IF S = {} THEN <<>>
    ELSE LET j == CHOOSE x \in S : \A y \in S : ca[x] <= ca[y]
         IN <<j>> \o OldestFirst(S \ {j}, ca)

RECURSIVE NewestFirst(_, _)

\* ORDER BY created_at DESC over the rows S
NewestFirst(S, ca) ==
    IF S = {} THEN <<>>
    ELSE LET j == CHOOSE x \in S : \A y \in S : ca[x] >= ca[y]
         IN <<j>> \o NewestFirst(S \ {j}, ca)

\* SELECT ... FROM jobs ORDER BY created_at DESC LIMIT ?: the ids of the rows
\* returned, in the order returned
ListJobs(l, ca, limit) ==
    LET all == NewestFirst(Present(l), ca)
    IN SubSeq(all, 1, Min(limit, Len(all)))

listFrame == <<subPc, queueVars, consumerVars, managerVars, processVars,
               published, requeued, stopVars, hubVars, connVars, installed>>

DbListJobs(limit) ==
    /\ listed' = ListJobs(ledger, createdAt, limit)
    /\ UNCHANGED <<ledger, createdAt, listFrame>>

DbClearJobs ==
    /\ ledger' = ClearJobs(ledger)
    /\ createdAt' = [j \in Jobs |-> 0]
    /\ UNCHANGED <<listed, listFrame>>

\* tables CreateJob and UpdateJobStatus calls can have built: rows in any
\* status, created at different times
ListTables ==
    {t \in [ledger : [Jobs -> {AbsentRow} \cup {[AbsentRow EXCEPT !.status = s] : s \in StatusNames}],
            createdAt : [Jobs -> 0..NumJobs]] :
        /\ \A j \in Jobs : t.createdAt[j] = 0 <=> t.ledger[j].status = "absent"
        /\ \A i \in Jobs : \A j \in Jobs :
              (i # j /\ t.createdAt[i] # 0) => t.createdAt[i] # t.createdAt[j]}

ListInit ==
    /\ InitQueue /\ InitPool(WorkerCount) /\ InitHub /\ InitConn
    /\ \E t \in ListTables : ledger = t.ledger /\ createdAt = t.createdAt
    /\ listed = <<>>

ListNext ==
    \/ \E limit \in Limits : DbListJobs(limit)
    \/ DbClearJobs

ListSpec == ListInit /\ [][ListNext]_vars

(* --------------------------- the event path --------------------------- *)

\* the jobs SubmitJob's round robin has written to slot w of a pool of n
DispatchedTo(w, n) == {j \in Jobs : (j - 1) % n = w}

RECURSIVE Ascending(_)
\* the members of S, smallest first
Ascending(S) ==
    IF S = {} THEN <<>>
    ELSE LET j == MinOf(S) IN <<j>> \o Ascending(S \ {j})

\* every job submitted, read from the stream, written to a worker of a pool of
\* n workers and acknowledged; no worker has read its input yet
Dispatched(n) ==
    /\ subPc = [j \in Jobs |-> "success"]
    /\ ledger = [j \in Jobs |-> CreateJob([i \in Jobs |-> AbsentRow], j)[j]]
    /\ createdAt = [j \in Jobs |-> 0]
    /\ listed = <<>>
    /\ stream = [j \in Jobs |-> JobEntry(j, 0)]
    /\ hist = [j \in Jobs |-> [calls |-> 1, fails |-> 0]]
    /\ lastDelivered = NumJobs
    /\ pending = {}
    /\ cpc = [c \in Consumers |-> "read"]
    /\ cmsg = [c \in Consumers |-> NoMsg]
    /\ csel = [c \in Consumers |-> NoWorker]
    /\ brokerErr = [c \in Consumers |-> FALSE]
    /\ published = [e \in JobEvents |-> 0]
    /\ requeued = [j \in Jobs |-> 0]
    /\ mu = Unlocked
    /\ nextWorker = NumJobs % n
    /\ running = [w \in 0..(n - 1) |-> TRUE]
    /\ procAlive = [w \in 0..(n - 1) |-> TRUE]
    /\ stdin = [w \in 0..(n - 1) |-> Ascending(DispatchedTo(w, n))]
    /\ cur = [w \in 0..(n - 1) |-> NoJob]
    /\ stdout = [w \in 0..(n - 1) |-> <<>>]
    /\ orphanedAt = [w \in 0..(n - 1) |-> {}]
    /\ lastLevel = [w \in 0..(n - 1) |-> 0]
    /\ stopPc = "idle"
    /\ stopIdx = 0
    /\ shutdownSent = [w \in 0..(n - 1) |-> FALSE]
    /\ installed = TRUE

\* the worker reports progress of its job, each report one level further than
\* the last
WorkerProgress(w, p) ==
    /\ procAlive[w]
    /\ cur[w] # NoJob
    /\ p = lastLevel[w] + 1
    /\ stdout' = [stdout EXCEPT ![w] =
          Append(@, [type |-> "progress", job |-> cur[w], level |-> p])]
    /\ lastLevel' = [lastLevel EXCEPT ![w] = p]
    /\ UNCHANGED <<procAlive, stdin, cur, orphanedAt, queueVars, consumerVars, managerVars,
                   submitVars, published, requeued, stopVars, hubVars, listVars, connVars, installed>>

\* the message a callback of main marshals for a scanned line
HubMsg(line) == [type |-> EventOf(line.type), job |-> line.job, level |-> line.level]

\* the scanner taking the newest line of the pipe instead of the oldest
HandleNewestLine(w) ==
    /\ stdout[w] # <<>>
    /\ Len(broadcast) < ChanCap
    /\ LET line == stdout[w][Len(stdout[w])] IN
        /\ stdout' = [stdout EXCEPT ![w] = SubSeq(@, 1, Len(@) - 1)]
        /\ published' = [published EXCEPT
              ![<<EventOf(line.type), line.job>>] = @ + 1]
        /\ broadcast' = Append(broadcast, HubMsg(line))
    /\ UNCHANGED <<lastLevel, ledger, subPc, queueVars, consumerVars, managerVars,
                   procAlive, stdin, cur, orphanedAt, requeued, stopVars,
                   hubClients, sendBuf, closes, listVars, connVars, installed>>

\* the line is a WorkerMessage of type progress, complete or error whose data
\* decodes; "garbage" is a line that is no JSON, "baddata" one whose data does
\* not decode, "ready" the message a worker sends when it has started
Dispatches(line) == line.type \in {"progress", "complete", "error"}

\* the handler calling the callback without testing that it is set
HandleLineUnchecked(w) ==
    /\ stdout[w] # <<>>
    /\ LET line == Head(stdout[w]) IN
        /\ line.type # "toolong"
        /\ stdout' = [stdout EXCEPT ![w] = Tail(@)]
        /\ IF Dispatches(line)
           THEN /\ Len(broadcast) < ChanCap
                /\ published' = [published EXCEPT
                      ![<<EventOf(line.type), line.job>>] = @ + 1]
                /\ broadcast' = Append(broadcast, HubMsg(line))
           ELSE UNCHANGED <<published, broadcast>>
    /\ UNCHANGED <<lastLevel, ledger, subPc, queueVars, consumerVars, managerVars,
                   procAlive, stdin, cur, orphanedAt, requeued, stopVars,
                   hubClients, sendBuf, closes, listVars, connVars, installed>>

\* handleWorkerOutput with the hub running: one scanned line.  A line longer
\* than the scanner's buffer ends the loop (Scan returns false), so no line of
\* the worker is handled from then on.  A line that is no JSON or whose data
\* does not decode is logged and skipped.  For the other lines the callback of
\* main for the type is called if it is set, and its h.broadcast <- msgBytes
\* waits while the channel is full.
HandleLine(w) ==
    /\ stdout[w] # <<>>
    /\ LET line == Head(stdout[w]) IN
        /\ line.type # "toolong"
        /\ stdout' = [stdout EXCEPT ![w] = Tail(@)]
        /\ IF Dispatches(line) /\ installed
           THEN /\ Len(broadcast) < ChanCap
                /\ published' = [published EXCEPT
                      ![<<EventOf(line.type), line.job>>] = @ + 1]
                /\ broadcast' = Append(broadcast, HubMsg(line))
           ELSE UNCHANGED <<published, broadcast>>
    /\ UNCHANGED <<lastLevel, ledger, subPc, queueVars, consumerVars, managerVars,
                   procAlive, stdin, cur, orphanedAt, requeued, stopVars,
                   hubClients, sendBuf, closes, listVars, connVars, installed>>

\* a connection's order is its own: Run offers a message to each client apart
\* from the others, so one client's connection is followed
Observers == {MinOf(Clients)}

\* the callbacks of main differ in the message type only; the jobs of this
\* specification end with a complete line
Endings == {"complete"}

EventInit == Dispatched(WorkerCount) /\ InitHub /\ InitConn

EventNext ==
    \/ \E w \in Pool : WorkerTakeJob(w)
    \/ \E w \in Pool : \E p \in 1..MaxProgress : WorkerProgress(w, p)
    \/ \E w \in Pool : \E t \in Endings : WorkerEmit(w, t)
    \/ \E w \in Pool : HandleLine(w)
    \/ \E k \in Observers : HubRegister(k)
    \/ \E k \in Observers : HubUnregister(k)
    \/ HubBroadcast
    \/ \E k \in Observers : WritePump(k)

EventSpec == EventInit /\ [][EventNext]_vars

(* ------------------------------ restart ------------------------------- *)

\* main started on the database file an earlier run has left: db.New opens
\* DataDir/diffbox.db and migrate creates the jobs table only if it is missing
RestartInit ==
    /\ InitQueue /\ InitPool(WorkerCount) /\ InitHub /\ InitConn
    /\ \E t \in ListTables : ledger = t.ledger /\ createdAt = t.createdAt
    /\ listed = <<>>

RestartSpec == RestartInit /\ [][Next]_vars

(* -------------------------- a single consumer ------------------------- *)

\* the group read by one Consume loop
Solo == {MinOf(Consumers)}

SoloNext ==
    \/ \E j \in Jobs : SubmitCreateJob(j)
    \/ \E j \in Jobs : SubmitEnqueue(j)
    \/ \E e \in ExternalEntries : XAddExternal(e)
    \/ \E c \in Solo : XReadGroup(c)
    \/ \E c \in Solo : XReadGroupError(c)
    \/ \E c \in Solo : Lock(c)
    \/ \E c \in Solo : Scan(c)
    \/ \E c \in Solo : Send(c)
    \/ \E w \in Pool : ExitWatcher(w)
    \/ \E w \in Pool : WorkerExit(w)

SoloSpec == Init /\ [][SoloNext]_vars

(* --------------------------- connections ------------------------------ *)

\* an element of a frame's job_ids array that is no JSON string
NotAString == -1

\* the zero value of a Go string, which Unmarshal leaves where an element of
\* the array does not fit
EmptyID == NoJob

\* job_ids arrays of a control frame: empty, of one element, or a job id with
\* an element behind it that is no string
IDArrays ==
    {<<>>} \cup {<<x>> : x \in Jobs \cup {NotAString}}
           \cup {<<j, NotAString>> : j \in Jobs}

\* data of a control frame: a JSON object with an array job_ids, or a value
\* that is no object (or no data at all)
Payloads == [object : {TRUE}, ids : IDArrays] \cup {[object |-> FALSE, ids |-> <<>>]}

\* a text frame: bytes that are no JSON, or a WSMessage of some type
Frames ==
    [json : {TRUE}, type : {"subscribe", "unsubscribe", "ping"}, data : Payloads]
      \cup {[json |-> FALSE, type |-> "", data |-> [object |-> FALSE, ids |-> <<>>]]}

\* json.Unmarshal(msg.Data, &sub) returns nil
PayloadDecodes(p) == p.object /\ \A i \in 1..Len(p.ids) : p.ids[i] # NotAString

\* sub.JobIDs after json.Unmarshal(msg.Data, &sub), whose error readPump does
\* not look at: an element that is no string is left as the zero value and the
\* rest of the array is decoded
JobIDs(p) ==
    IF ~p.object THEN {}
    ELSE {IF p.ids[i] = NotAString THEN EmptyID ELSE p.ids[i] : i \in 1..Len(p.ids)}

\* the frame decodes: json.Unmarshal of the frame and of its data return nil
FrameDecodes(f) == f.json /\ PayloadDecodes(f.data)

\* readPump's loop body: c.subscribedTo after the frame
ApplyFrame(sub, f) ==
    IF ~f.json THEN sub
    ELSE CASE f.type = "subscribe"   -> sub \cup JobIDs(f.data)
           [] f.type = "unsubscribe" -> sub \ JobIDs(f.data)
           [] OTHER                  -> sub

\* handleWebSocket: the connection is upgraded, the Client is registered with
\* the hub and its two pumps are started
Upgrade(k) ==
    /\ conn[k] = "none"
    /\ HubBecomes(Register(Hub, k))
    /\ conn' = [conn EXCEPT ![k] = "open"]
    /\ reader' = [reader EXCEPT ![k] = TRUE]
    /\ writer' = [writer EXCEPT ![k] = TRUE]
    /\ UNCHANGED <<subscribedTo, broadcast, queueVars, consumerVars, managerVars,
                   processVars, submitVars, published, requeued, stopVars, listVars,
                   installed>>

\* readPump: ReadMessage returns a frame
ReadPumpFrame(k, f) ==
    /\ reader[k]
    /\ conn[k] = "open"
    /\ subscribedTo' = [subscribedTo EXCEPT ![k] = ApplyFrame(@, f)]
    /\ UNCHANGED <<conn, reader, writer, hubVars, queueVars, consumerVars, managerVars,
                   processVars, submitVars, published, requeued, stopVars, listVars,
                   installed>>

\* readPump returning without telling the hub
ReadPumpReturnsSilently(k) ==
    /\ reader[k]
    /\ conn' = [conn EXCEPT ![k] = "closed"]
    /\ reader' = [reader EXCEPT ![k] = FALSE]
    /\ UNCHANGED <<subscribedTo, writer, hubVars, queueVars, consumerVars, managerVars,
                   processVars, submitVars, published, requeued, stopVars, listVars,
                   installed>>

\* readPump: ReadMessage returns an error (the peer has gone, or the connection
\* was closed); the deferred c.hub.unregister <- c, taken by Run, and Close
ReadPumpReturn(k) ==
    /\ reader[k]
    /\ HubBecomes(Unregister(Hub, k))
    /\ conn' = [conn EXCEPT ![k] = "closed"]
    /\ reader' = [reader EXCEPT ![k] = FALSE]
    /\ UNCHANGED <<subscribedTo, writer, broadcast, queueVars, consumerVars, managerVars,
                   processVars, submitVars, published, requeued, stopVars, listVars,
                   installed>>

\* writePump: one message of c.send is written; WriteMessage fails on a closed
\* connection and may fail on an open one, and then the pump returns and its
\* deferred Close runs
WritePumpWrite(k) ==
    /\ writer[k]
    /\ sendBuf[k] # <<>>
    /\ sendBuf' = [sendBuf EXCEPT ![k] = Tail(@)]
    /\ \/ /\ conn[k] = "open"
          /\ UNCHANGED <<conn, writer>>
       \/ /\ conn' = [conn EXCEPT ![k] = "closed"]
          /\ writer' = [writer EXCEPT ![k] = FALSE]
    /\ UNCHANGED <<subscribedTo, reader, hubClients, closes, broadcast, queueVars,
                   consumerVars, managerVars, processVars, submitVars, published,
                   requeued, stopVars, listVars, installed>>

\* writePump: c.send is closed and drained, the range loop ends, Close runs
WritePumpDrained(k) ==
    /\ writer[k]
    /\ sendBuf[k] = <<>>
    /\ closes[k] > 0
    /\ conn' = [conn EXCEPT ![k] = "closed"]
    /\ writer' = [writer EXCEPT ![k] = FALSE]
    /\ UNCHANGED <<subscribedTo, reader, hubVars, queueVars, consumerVars, managerVars,
                   processVars, submitVars, published, requeued, stopVars, listVars,
                   installed>>

\* the job events handed to the hub, which takes them as bytes; one per job
JobMsgs == {[type |-> "job:complete", job |-> j, level |-> 0] : j \in Jobs}

\* a connection from its upgrade to its end, and the events it is sent
LinkNext ==
    \/ \E k \in Observers : Upgrade(k)
    \/ \E k \in Observers : ReadPumpReturn(k)
    \/ \E k \in Observers : WritePumpWrite(k)
    \/ \E k \in Observers : WritePumpDrained(k)
    \/ \E msg \in JobMsgs : HubPublish(msg)
    \/ HubBroadcast

LinkSpec == Init /\ [][LinkNext]_vars

\* the same with the control frames the client sends
ConnNext ==
    \/ LinkNext
    \/ \E k \in Observers : \E f \in Frames : ReadPumpFrame(k, f)

ConnSpec == Init /\ [][ConnNext]_vars

\* Run serves its channels and the pumps run when they can; frames, peers
\* going away and job events come as they come
ConnFairness ==
    /\ WF_vars(HubBroadcast)
    /\ \A k \in Observers :
          /\ WF_vars(conn[k] = "closed" /\ ReadPumpReturn(k))
          /\ WF_vars(WritePumpWrite(k))
          /\ WF_vars(WritePumpDrained(k))

FairLinkSpec == LinkSpec /\ ConnFairness

(* ------------------------------ startup ------------------------------- *)

\* main between workerManager.Start() and workerManager.SetCallbacks(...)
StartInit ==
    /\ InitQueue /\ Started(WorkerCount) /\ InitHub /\ InitConn /\ InitLedger
    /\ installed = FALSE

\* SetCallbacks: the three callback fields are set under m.mu
SetCallbacks ==
    /\ ~installed
    /\ mu = Unlocked
    /\ installed' = TRUE
    /\ UNCHANGED <<queueVars, consumerVars, managerVars, processVars, submitVars,
                   published, requeued, stopVars, hubVars, listVars, connVars>>

\* lines a worker writes while it starts, before it has a job: progress reports
\* of loading its pipeline, which carry no job id, and the ready message
StartupLines == {"progress", "ready"}

WorkerLoading(w, t) ==
    /\ procAlive[w]
    /\ cur[w] = NoJob
    /\ stdin[w] = <<>>
    /\ lastLevel[w] < MaxProgress
    /\ stdout' = [stdout EXCEPT ![w] =
          Append(@, [type |-> t, job |-> NoJob, level |-> lastLevel[w] + 1])]
    /\ lastLevel' = [lastLevel EXCEPT ![w] = @ + 1]
    /\ UNCHANGED <<procAlive, stdin, cur, orphanedAt, queueVars, consumerVars, managerVars,
                   submitVars, published, requeued, stopVars, hubVars, listVars,
                   connVars, installed>>

StartNext ==
    \/ SetCallbacks
    \/ \E w \in Pool : \E t \in StartupLines : WorkerLoading(w, t)
    \/ \E w \in Pool : HandleLine(w)
    \/ HubBroadcast
    \/ \E k \in Observers : Upgrade(k)
    \/ \E k \in Observers : ReadPumpReturn(k)
    \/ \E k \in Observers : WritePumpWrite(k)

StartSpec == StartInit /\ [][StartNext]_vars

\* lines that are no protocol message: no JSON, a message whose data does not
\* decode, and a line longer than the scanner's buffer of 1 MB
Malformed == {"garbage", "baddata", "toolong"}

\* the worker writes a malformed line; the pipe holds ChanCap lines here
WorkerGarble(w, t) ==
    /\ procAlive[w]
    /\ Len(stdout[w]) < ChanCap
    /\ stdout' = [stdout EXCEPT ![w] = Append(@, [type |-> t, job |-> NoJob, level |-> 0])]
    /\ UNCHANGED <<lastLevel, procAlive, stdin, cur, orphanedAt, queueVars, consumerVars,
                   managerVars, submitVars, published, requeued, stopVars, hubVars,
                   listVars, connVars, installed>>

ProtocolNext ==
    \/ \E w \in Pool : \E t \in StartupLines : WorkerLoading(w, t)
    \/ \E w \in Pool : \E t \in Malformed : WorkerGarble(w, t)
    \/ \E w \in Pool : HandleLine(w)
    \/ HubBroadcast
    \/ \E k \in Observers : Upgrade(k)
    \/ \E k \in Observers : \E f \in Frames : ReadPumpFrame(k, f)
    \/ \E k \in Observers : ReadPumpReturn(k)
    \/ \E k \in Observers : WritePumpWrite(k)
    \/ \E k \in Observers : WritePumpDrained(k)

ProtocolSpec == Init /\ [][ProtocolNext]_vars

(* ------------------------------- claims ------------------------------- *)

Entries == 1..Len(stream)

EntriesOf(j) == {k \in Entries : stream[k].kind = "job" /\ stream[k].id = j}

Handling(j) == \E c \in Consumers : cmsg[c] # NoMsg /\ stream[cmsg[c]].id = j

\* nothing more will happen to job j: every entry of it was delivered and its
\* handler has returned, and no worker holds it
Settled(j) ==
    /\ \A k \in EntriesOf(j) : k <= lastDelivered
    /\ ~Handling(j)
    /\ \A w \in Workers : j \notin InFlight(w)

RECURSIVE SumCalls(_)

\* handler invocations over a set of stream entries
SumCalls(K) ==
    IF K = {} THEN 0
    ELSE LET k == CHOOSE x \in K : TRUE IN hist[k].calls + SumCalls(K \ {k})

\* C1: every job whose submission returned success eventually has ledger status
\* completed or failed, and a terminal status never changes into the other one.
\* Stated for the runs the claim is least demanding on: no worker process ever
\* exits and the broker never fails.
C1_EventuallyOneTerminalStatus ==
    /\ ([](\A w \in Workers : procAlive[w]) /\ [](\A c \in Consumers : ~brokerErr[c]))
          => \A j \in Jobs : (subPc[j] = "success") ~> Terminal(j)
    /\ [][\A j \in Jobs : Terminal(j) => ledger'[j].status = ledger[j].status]_vars

\* C2: once the handler has failed on an entry with retry counter 0, the stream
\* holds exactly one entry with the same job and retry counter 1, and the
\* original entry is acknowledged and was handed to the handler only once.
C2_FirstFailureRequeuedAndAcked ==
    \A m \in Entries :
        (hist[m].fails > 0 /\ stream[m].retry = 0) =>
            /\ Cardinality({k \in Entries : stream[k] = JobEntry(stream[m].id, 1)}) = 1
            /\ m \notin pending
            /\ hist[m].calls = 1

\* C3: once the handler has failed on an entry with retry counter >= 1 the entry
\* is acknowledged and no entry with a higher counter exists for its job, and
\* the handler is invoked at most twice for one job id.
C3_SecondFailureAckedNoThirdDelivery ==
    /\ \A m \in Entries :
          (hist[m].fails > 0 /\ stream[m].retry >= 1) =>
              /\ m \notin pending
              /\ \A k \in EntriesOf(stream[m].id) : stream[k].retry <= stream[m].retry
    /\ \A j \in Jobs : SumCalls(EntriesOf(j)) <= 2

\* C4: a job whose handler failed on the original delivery and on the retry
\* ends with ledger status failed.
C4_TwoFailuresEndFailed ==
    \A j \in Jobs :
        ( /\ \E m \in EntriesOf(j) : stream[m].retry = 0 /\ hist[m].fails > 0
          /\ \E m \in EntriesOf(j) : stream[m].retry = 1 /\ hist[m].fails > 0
          /\ Settled(j) )
        => ledger[j].status = "failed"

\* C5: a job whose handler failed on the original delivery and succeeded on the
\* retry, and whose completion the worker has reported, ends with ledger status
\* completed.
C5_RetryThenSuccessEndsCompleted ==
    \A j \in Jobs :
        ( /\ \E m \in EntriesOf(j) : stream[m].retry = 0 /\ hist[m].fails > 0
          /\ \E m \in EntriesOf(j) :
                stream[m].retry = 1 /\ hist[m].calls = 1 /\ hist[m].fails = 0
          /\ published[<<"job:complete", j>>] > 0
          /\ Settled(j) )
        => ledger[j].status = "completed"

\* C6: a delivered entry whose payload does not decode was never handed to the
\* handler and is not in the group's pending set.
C6_MalformedAckedAndDropped ==
    \A m \in Entries :
        (m <= lastDelivered /\ ~Decodes(stream[m])) =>
            /\ hist[m].calls = 0
            /\ m \notin pending

\* C7: after XReadGroup returned an error to a consumer loop, that loop has
\* returned and stays returned: it reads no entry and invokes no handler.
C7_BrokerErrorEndsLoop ==
    [][\A c \in Consumers :
          brokerErr[c] => /\ cpc[c] = "returned" /\ cpc'[c] = "returned"
                          /\ cmsg[c] = NoMsg /\ cmsg'[c] = NoMsg]_vars

C7_Witness ==
    /\ \A c \in Consumers : brokerErr[c] /\ cpc[c] = "returned"
    /\ lastDelivered < Len(stream)

\* C8: no worker holds two jobs: a job is written to a worker only when every
\* job written to it before has had its terminal event handled.
C8_BusyWorkerNotGivenSecondJob ==
    \A w \in Workers : Cardinality(InFlight(w)) <= 1

\* C9: two SubmitJob calls never hold the same worker selected at the same
\* time, so a worker that is idle when one call selects it is not selected by
\* another call before the first has written its job.
C9_NoTwoCallsSelectSameWorker ==
    \A c \in Consumers : \A d \in Consumers :
        (c # d /\ cpc[c] = "send" /\ cpc[d] = "send") => csel[c] # csel[d]

C9_Witness ==
    \E c \in Consumers : \E d \in Consumers :
        /\ cpc[c] = "send" /\ InFlight(csel[c]) = {}
        /\ cpc[d] = "lock"
        /\ \A w \in Workers : running[w] <=> w = csel[c]

\* C10: after a worker process exited with jobs in flight and its exit was
\* handled, exactly one requeue signal has been emitted for each of those jobs.
C10_ExitRequeuesInFlightJobOnce ==
    \A w \in Workers :
        (~procAlive[w] /\ ~running[w]) =>
            \A j \in orphanedAt[w] : requeued[j] = 1

\* C11: while Stop has not begun, a slot whose worker process exited eventually
\* holds a live worker again; once Stop has begun no slot gets a new process.
C11_ExitedWorkerRespawnedUnlessStopping ==
    /\ \A w \in Slots :
          [](( w \in Pool /\ ~procAlive[w] /\ stopPc = "idle")
                => <>((w \in Pool /\ procAlive[w] /\ running[w]) \/ stopPc # "idle"))
    /\ [][stopPc # "idle" => \A w \in Pool : procAlive'[w] => procAlive[w]]_vars

\* C12: a scan that finds a running worker chooses the first slot (c + i) mod n,
\* i = 0..n-1, from the cursor c whose running flag is true, and leaves the
\* cursor at (k + 1) mod n for the chosen slot k; it finds one whenever a
\* running flag is true.
C12_RoundRobinFromCursor ==
    [][\A c \in Consumers :
          (cpc[c] = "scan" /\ cpc'[c] # "scan") =>
              /\ (\E w \in Pool : running[w]) => cpc'[c] = "send"
              /\ cpc'[c] = "send" =>
                    /\ \E i \in 0..(PoolSize - 1) :
                          /\ csel'[c] = (nextWorker + i) % PoolSize
                          /\ running[csel'[c]]
                          /\ \A h \in 0..(i - 1) : ~running[(nextWorker + h) % PoolSize]
                    /\ nextWorker' = (csel'[c] + 1) % PoolSize]_vars

\* a call has selected a slot after skipping the one before it
C12_Witness ==
    \E c \in Consumers :
        /\ cpc[c] = "send"
        /\ PoolSize >= 2
        /\ nextWorker = (csel[c] + 1) % PoolSize
        /\ ~running[nextWorker]

\* C13: a SubmitJob call that finds no running worker, the pool being empty or
\* every flag false, returns an error to its caller, writes to no worker's
\* stdin and leaves the cursor and every worker's state as they were.
C13_NoWorkerErrorChangesNothing ==
    [][\A c \in Consumers :
          (cpc[c] = "scan" /\ cpc'[c] # "scan" /\ \A w \in Pool : ~running[w]) =>
              /\ cpc'[c] = "read"
              /\ hist'[cmsg[c]].fails = hist[cmsg[c]].fails + 1
              /\ nextWorker' = nextWorker
              /\ UNCHANGED <<running, procAlive, stdin, cur, stdout, shutdownSent>>]_vars

\* a call has failed on the empty pool
C13_Witness ==
    /\ Pool = {}
    /\ \E m \in Entries : hist[m].fails > 0

\* C14: once Stop holds the pool it returns, with every slot's running flag
\* false, whether or not the workers obey the shutdown message.
C14_StopAlwaysTerminates ==
    (stopPc # "idle") ~> (stopPc = "done" /\ \A w \in Pool : ~running[w])

\* C15: a broadcast step of Run puts the message in the buffer of every client
\* whose buffer has room, removes every client whose buffer is full and closes
\* that buffer, whatever the other buffers hold; and the step can be taken
\* whenever a message is waiting, full buffers or not.
C15_FullClientDroppedOthersServed ==
    /\ [](broadcast # <<>> => ENABLED HubBroadcast)
    /\ [][(broadcast # <<>> /\ broadcast' = Tail(broadcast)) =>
            \A k \in hubClients :
                IF Len(sendBuf[k]) < ChanCap
                THEN /\ sendBuf'[k] = Append(sendBuf[k], Head(broadcast))
                     /\ k \in hubClients'
                     /\ closes'[k] = closes[k]
                ELSE /\ k \notin hubClients'
                     /\ closes'[k] = closes[k] + 1
                     /\ sendBuf'[k] = sendBuf[k]]_vars

\* a broadcast has dropped a client with a full buffer and served another
C15_Witness ==
    \E k \in Clients : \E o \in Clients :
        /\ k \notin hubClients /\ closes[k] = 1 /\ Len(sendBuf[k]) = ChanCap
        /\ o \in hubClients /\ sendBuf[o] # <<>>
        /\ Len(broadcast) = ChanCap - 1

\* C16: registering a registered client and unregistering a client that is not
\* in the set (never registered, unregistered before, or dropped by a
\* broadcast) leave the hub as it is; doing either twice is doing it once; no
\* buffer is closed twice.
C16_RegisterUnregisterIdempotent ==
    \A k \in Clients :
        /\ k \in hubClients => Register(Hub, k) = Hub
        /\ k \notin hubClients => Unregister(Hub, k) = Hub
        /\ Register(Register(Hub, k), k) = Register(Hub, k)
        /\ Unregister(Unregister(Hub, k), k) = Unregister(Hub, k)
        /\ closes[k] <= 1

\* one client is registered, one was dropped by a broadcast, one unregistered
\* or never registered
C16_Witness ==
    \E k \in Clients : \E o \in Clients :
        /\ k \in hubClients
        /\ o \notin hubClients /\ closes[o] = 1 /\ Len(sendBuf[o]) = ChanCap

\* job j is over without having completed: its submission succeeded, nothing
\* more will happen to it, and no completion of it was reported
EndedUncompleted(j) ==
    /\ subPc[j] = "success"
    /\ Settled(j)
    /\ published[<<"job:complete", j>>] = 0

\* C17: for a job that is over without having completed, exactly one job:error
\* event for its id has been handed to the hub, so that each client that stays
\* registered is offered exactly one.
C17_FailedJobOneErrorEvent ==
    \A j \in Jobs : EndedUncompleted(j) => published[<<"job:error", j>>] = 1

\* C18: once a row's status is completed or failed, no later call changes its
\* status, progress, stage, output or error.
C18_TerminalRowNeverChanges ==
    [][\A j \in Jobs : Terminal(j) => ledger'[j] = ledger[j]]_vars

\* C19: while a row's status is running, its recorded progress never decreases.
C19_ProgressNeverDecreasesWhileRunning ==
    [][\A j \in Jobs :
          (ledger[j].status = "running" /\ ledger'[j].status = "running")
              => ledger'[j].progress >= ledger[j].progress]_vars

\* C20: UpdateJobProgress, CompleteJob and FailJob called with an id that has no
\* row return no error and leave the ledger as it is, whatever their other
\* arguments and whatever rows the ledger holds.
C20_AbsentIdMutationIsNoOp ==
    \A j \in Jobs :
        ledger[j].status = "absent" =>
            /\ \A p \in ProgressLevels : \A st \in StageNames :
                  UpdateJobProgress(ledger, j, p, st) = ledger
            /\ \A out \in OutputPaths : CompleteJob(ledger, j, out) = ledger
            /\ \A err \in ErrorTexts : FailJob(ledger, j, err) = ledger
            /\ ~ExecErr(ledger, j)

\* one id has no row while another row has been worked on and failed
C20_Witness ==
    \E j \in Jobs : \E i \in Jobs :
        /\ ledger[j].status = "absent"
        /\ ledger[i].status = "failed" /\ ledger[i].progress > 0

\* C21: after ClearJobs, ListJobs returns the empty sequence for every limit,
\* whatever rows, in whatever status, the table held.
C21_ClearThenListIsEmpty ==
    /\ \A limit \in Limits : ListJobs(ClearJobs(ledger), createdAt, limit) = <<>>
    /\ Present(ledger) = {} => \A limit \in Limits : ListJobs(ledger, createdAt, limit) = <<>>

\* a listing returned rows in a terminal and in a non-terminal status, and the
\* table was cleared after it
C21_Witness ==
    /\ Present(ledger) = {}
    /\ Len(listed) >= 2

\* C22: ListJobs(limit) returns min(limit, number of rows) rows, each row at
\* most once, newest created first, and no row left out is newer than a row
\* returned; with limit 0 it returns the empty sequence.
C22_ListNewestFirstUpToLimit ==
    \A limit \in Limits :
        LET r == ListJobs(ledger, createdAt, limit) IN
            /\ Len(r) = Min(limit, Cardinality(Present(ledger)))
            /\ \A i \in 1..Len(r) : r[i] \in Present(ledger)
            /\ \A i \in 1..Len(r) : \A k \in 1..Len(r) :
                  i < k => createdAt[r[i]] > createdAt[r[k]]
            /\ \A j \in Present(ledger) : \A i \in 1..Len(r) :
                  (\A k \in 1..Len(r) : r[k] # j) => createdAt[j] < createdAt[r[i]]
            /\ limit = 0 => r = <<>>

\* a listing with a limit below the number of rows has returned the newest
C22_Witness ==
    /\ Cardinality(Present(ledger)) >= 2
    /\ Len(listed) = 1
    /\ \A j \in Present(ledger) : createdAt[j] <= createdAt[listed[1]]

\* C23: UpdateJobProgress on a row sets its progress and stage to the values
\* given and leaves its status, output and error, and every other row, as they
\* were.
C23_UpdateProgressTouchesProgressAndStageOnly ==
    \A j \in Present(ledger) : \A p \in ProgressLevels : \A st \in StageNames :
        LET l2 == UpdateJobProgress(ledger, j, p, st) IN
            /\ l2[j].progress = p
            /\ l2[j].stage = st
            /\ l2[j].status = ledger[j].status
            /\ l2[j].output = ledger[j].output
            /\ l2[j].error = ledger[j].error
            /\ \A i \in Jobs \ {j} : l2[i] = ledger[i]

\* a pending row has had its progress updated and is still pending
C23_Witness ==
    \E j \in Jobs :
        /\ ledger[j].status = "pending"
        /\ ledger[j].progress > 0
        /\ ledger[j].stage # ""

\* C24: once a progress event of a job has been handled on the worker-event
\* path, the job's row holds the progress reported and is no longer pending.
C24_ProgressEventRecordedAndRunning ==
    \A j \in Jobs :
        published[<<"job:progress", j>>] > 0 =>
            /\ ledger[j].status \in {"running", "completed", "failed"}
            /\ ledger[j].progress > 0

IsTerminal(e) == e.type \in {"complete", "error", "job:complete", "job:error"}

\* position of an event in what its worker emits: jobs in the order written to
\* the worker, in a job the progress reports by level and then the ending
Rank(e) ==
    e.job * (MaxProgress + 2) + (IF IsTerminal(e) THEN MaxProgress + 1 ELSE e.level)

\* the events of worker w on their way to client k, nearest to the client first
InTransit(w, k) ==
    SelectSeq(sendBuf[k] \o broadcast, LAMBDA e : e.job \in DispatchedTo(w, PoolSize))
      \o stdout[w]

\* the event is one the worker process has emitted already
Emitted(w, e) ==
    /\ \A i \in 1..Len(stdin[w]) : e.job < stdin[w][i]
    /\ cur[w] # NoJob =>
          \/ e.job < cur[w]
          \/ e.job = cur[w] /\ ~IsTerminal(e) /\ e.level <= lastLevel[w]

\* C25: the events of one worker travel in emission order: on the way from the
\* worker's output through the broadcast channel to a client's send channel no
\* event is ahead of one its worker emitted earlier, and none is ahead of what
\* the worker has emitted.
C25_WorkerEventsInEmissionOrder ==
    \A w \in Pool : \A k \in Observers :
        LET q == InTransit(w, k) IN
            /\ \A a, b \in 1..Len(q) : a < b => Rank(q[a]) < Rank(q[b])
            /\ \A a \in 1..Len(q) : Emitted(w, q[a])

\* a client's send channel holds a progress message of a job and behind it the
\* job's complete message, and the worker has taken its next job
C25_Witness ==
    \E k \in Observers : \E w \in Pool :
        /\ Len(sendBuf[k]) >= 2
        /\ sendBuf[k][1].type = "job:progress"
        /\ sendBuf[k][2].type = "job:complete"
        /\ sendBuf[k][1].job = sendBuf[k][2].job
        /\ cur[w] # NoJob

C27_NoRowOfAnEarlierRun ==
    \A j \in Jobs : ledger[j].status # "absent" => subPc[j] # "new"

\* C28: a live worker's current-job-id is non-empty exactly when the worker has
\* been sent a job whose complete or error event has not arrived yet.
C28_CurrentJobIdTracksJobInFlight ==
    \A w \in Pool :
        procAlive[w] => (CurrentJobID(w) # NoJob <=> InFlight(w) # {})

\* the state of slot w: its process has exited, or it holds no job, or it holds
\* a job whose terminal event has not been handled
SlotState(w) ==
    IF ~procAlive[w] THEN "crashed"
    ELSE IF InFlight(w) = {} THEN "ready" ELSE "busy"

\* C29: a slot moves only ready -> busy, busy -> ready and from any state to
\* crashed; while it stays busy it is given no further job, and a crashed slot
\* does not become ready or busy.
C29_SlotMovesAlongTheStateMachine ==
    [][\A w \in Pool :
          \/ SlotState(w)' = "crashed"
          \/ SlotState(w) = "ready" /\ SlotState(w)' \in {"ready", "busy"}
          \/ SlotState(w) = "busy" /\ SlotState(w)' = "ready"
          \/ SlotState(w) = "busy" /\ SlotState(w)' = "busy"
                /\ InFlight(w)' \subseteq InFlight(w)]_vars

\* C30: the manager's state is written only by the holder of the manager's
\* lock: while a SubmitJob call holds the lock, from before its scan to its
\* unlock, no worker's running flag and no cursor changes except by that call.
C30_NoWriteBesideTheLockHolder ==
    [][\A c \in Consumers :
          (mu = c /\ cpc' = cpc) => (running' = running /\ nextWorker' = nextWorker)]_vars

\* C31: a malformed message ends no loop and has no effect: a worker's reader
\* facing a malformed line goes on, the line calls no callback, and a control
\* frame that does not decode leaves the client's subscriptions as they were.
C31_MalformedDroppedLoopGoesOn ==
    [][/\ \A w \in Pool :
             (stdout[w] # <<>> /\ Head(stdout[w]).type \in Malformed) =>
                 /\ ENABLED HandleLine(w)
                 /\ stdout'[w] # stdout[w] =>
                       (published' = published /\ broadcast' = broadcast)
       /\ \A k \in Clients : \A f \in Frames :
             (reader[k] /\ conn[k] = "open" /\ ~FrameDecodes(f)) =>
                 ApplyFrame(subscribedTo[k], f) = subscribedTo[k]]_vars

\* C38: a line scanned while the callbacks are not set hands nothing to the
\* hub, and setting the callbacks hands nothing over either: what was scanned
\* before is gone.
C38_LineBeforeCallbacksIsDropped ==
    [][/\ (~installed /\ stdout' # stdout /\ \A w \in Pool : Len(stdout'[w]) <= Len(stdout[w]))
             => (published' = published /\ broadcast' = broadcast)
       /\ installed' # installed
             => (published' = published /\ broadcast' = broadcast /\ stdout' = stdout)]_vars

\* the callbacks are set, a progress line written before has been scanned, and
\* nothing has been handed to the hub
C38_Witness ==
    /\ installed
    /\ \E w \in Pool : lastLevel[w] > 0 /\ stdout[w] = <<>>
    /\ \A e \in JobEvents : published[e] = 0
    /\ broadcast = <<>>

\* C32: the ledger is updated before the event is published: whenever a
\* job:complete (job:error) event of a job is in the broadcast channel or in a
\* client's send channel, the job's row is completed (failed).
C32_LedgerUpdatedBeforePublish ==
    \A k \in Clients :
        LET q == sendBuf[k] \o broadcast IN
        \A i \in 1..Len(q) :
            /\ q[i].type = "job:complete" => ledger[q[i].job].status = "completed"
            /\ q[i].type = "job:error" => ledger[q[i].job].status = "failed"

C35_FailedConnectionLeavesTheHub ==
    /\ [][\A k \in Clients : (writer[k] /\ ~writer'[k]) => conn'[k] = "closed"]_vars
    /\ \A k \in Clients :
          (conn[k] = "closed") ~> (k \notin hubClients /\ closes[k] = 1)

\* a write has failed: the writer has returned and closed the connection while
\* the client is still registered, its channel open and its reader running
C35_Witness ==
    \E k \in Clients :
        /\ conn[k] = "closed" /\ ~writer[k] /\ reader[k]
        /\ k \in hubClients /\ closes[k] = 0

\* C36: every client in the hub's set has an open send channel, and a client
\* whose channel was closed is not in the set; no channel is closed twice and
\* no message is put in a closed channel.
C36_RegisteredMeansOpenBuffer ==
    /\ [](\A k \in Clients : (k \in hubClients => closes[k] = 0) /\ closes[k] <= 1)
    /\ [][\A k \in Clients :
             Len(sendBuf'[k]) > Len(sendBuf[k]) => (closes[k] = 0 /\ closes'[k] = 0)]_vars

\* a client has unregistered with room left in its channel, which is closed,
\* while another is registered with a full channel, which is open
C36_Witness ==
    \E k \in Clients : \E o \in Clients \ {k} :
        /\ k \notin hubClients /\ closes[k] = 1 /\ Len(sendBuf[k]) < ChanCap
        /\ o \in hubClients /\ closes[o] = 0 /\ Len(sendBuf[o]) = ChanCap

\* C37: a single consumer handles the entries one at a time in the order of
\* the stream: when the handler has been invoked for an entry, every entry
\* before it was delivered and its handler, if it had one, was invoked once and
\* has returned; so a retry appended later is handled after what was there.
C37_SoloConsumerInStreamOrder ==
    \A c \in Solo : \A b \in Entries :
        hist[b].calls > 0 =>
            /\ hist[b].calls = 1
            /\ \A a \in 1..(b - 1) :
                  /\ a <= lastDelivered
                  /\ cmsg[c] # a
                  /\ Decodes(stream[a]) => hist[a].calls = 1

\* the handler is running for the retry of a job, the last of three entries,
\* after it failed on the job's first entry
C37_Witness ==
    \E c \in Solo :
        /\ cmsg[c] = 3
        /\ stream[3].retry = 1
        /\ \E a \in 1..2 : stream[a].id = stream[3].id /\ hist[a].fails = 1

Writes(j) == SumCalls(EntriesOf(j)) - Cardinality({m \in EntriesOf(j) : hist[m].fails > 0})

\* C33: the requeue after a crash does not look at the retry counter: a job
\* whose retry entry has been written to a worker and that is in flight when its
\* worker exits is requeued all the same, which is what gives the job a third
\* write.
C33_CrashRequeueBesideRetryBudget ==
    \A w \in Pool :
        (~procAlive[w] /\ ~running[w]) =>
            \A j \in orphanedAt[w] :
                (\E m \in EntriesOf(j) :
                    stream[m].retry = 1 /\ hist[m].calls = 1 /\ hist[m].fails = 0)
                    => requeued[j] >= 1

====
